---- MODULE Spec2Model ----
(***************************************************************************)
(* ModelRegistry (src/src/core/model_registry.py): the in-memory index of  *)
(* ModelMetadata records per model name, its filesystem storage, and the   *)
(* operations register, get_production_model, get_model_version,           *)
(* list_models and promote_to_production, together with the construction   *)
(* of a new registry over the same storage root (_load_registry); and      *)
(* AuditTrail of the same file: log_action, get_logs and the daily log     *)
(* files.                                                                  *)
(***************************************************************************)
EXTENDS Integers, Sequences, FiniteSets, TLC

\* ------------------------------------------------------------------ bounds
\* Calls of register over the whole run, failed ones included.
MaxRegisterCalls == 2

\* ------------------------------------------------------------ value sets
\* Optional[T]: None is the empty sequence, a value x is <<x>>.
None == <<>>
Some(x) == <<x>>

\* Model names callers pass.  A name is a free string; "team/credit" holds a
\* path separator.
Names == {"credit", "team/credit"}

\* pathlib: storage_path / name splits the name at "/" into directory parts.
PathParts(name) == IF name = "team/credit" THEN <<"team", "credit">> ELSE <<name>>

\* Artifacts callers register; "lambda" is an object pickle cannot serialize.
Artifacts == {"artA", "artB", "lambda"}
Picklable(obj) == obj # "lambda"

\* performance_metrics values: a float is JSON-native, a Decimal is not.
PerfDecimal == [auc |-> [type |-> "Decimal", repr |-> "0.9"]]

\* The metadata argument of register: None (the empty mapping here, both are
\* falsy in `if metadata`) or a dict of overrides.
NoOverrides == <<>>
StatusOverride == [status |-> "production"]
FullOverride == [domain |-> "credit", performance_metrics |-> PerfDecimal,
                 approved_by |-> "carol", approval_date |-> 0]

\* Where a storage write of register fails (an I/O error, a full disk):
\* nowhere, while writing model.pkl, or while writing metadata.json.
Faults == {"none", "pkl", "meta"}

\* The (model, metadata, fault) combinations register is called with.
RegisterCalls ==
    { <<"artA", NoOverrides, "none">>,
      <<"artA", StatusOverride, "none">>,
      <<"artB", FullOverride, "none">>,
      <<"lambda", NoOverrides, "none">>,
      <<"artB", NoOverrides, "pkl">>,
      <<"artA", NoOverrides, "meta">> }

Backends == {"mlflow", "filesystem"}

\* The readings of the wall clock, datetime.now(), in increasing order.
Instants == {0, 1}

\* Callers that may run promote_to_production and lookups at the same time.
Threads == {"t1", "t2"}

\* The locals of a promote_to_production call: name, version, the position of
\* version_meta in the list and the position of the demote loop.
NoFrame == [name |-> "", version |-> "", version_meta |-> 0, vm |-> 0, approved_by |-> ""]

\* ------------------------------------------------------------------ state
VARIABLES
    backend,    \* self.backend
    alive,      \* a registry object exists (its constructor returned)
    models,     \* self.models: name -> list of ModelMetadata
    model_pkl,  \* storage: directory path -> content of its model.pkl
    meta_json,  \* storage: directory path -> content of its metadata.json
    clock,      \* datetime.now()
    issued,     \* history: name -> the records successful registers returned
    calls,      \* history: how many times register was called
    pc,         \* thread -> where the thread is in promote_to_production
    frame,      \* thread -> the locals of its call
    ret,        \* the last call and what it returned or raised
    storage,    \* AuditTrail: self.storage
    logs,       \* AuditTrail: self.logs, the in-memory log
    log_file,   \* AuditTrail: date -> the lines of audit_<date>.jsonl
    passed,     \* history: the arguments of the log_action calls, in call order
    log_ret     \* AuditTrail: the last call and what it returned

\* The state of the AuditTrail object, which no ModelRegistry method refers to.
audit == <<storage, logs, log_file, passed, log_ret>>

vars == <<backend, alive, models, model_pkl, meta_json, clock, issued, calls, pc, frame, ret,
          storage, logs, log_file, passed, log_ret>>

\* ---------------------------------------------------------------- helpers
\* f"v{current_version}.0"
VersionTag(n) == "v" \o ToString(n) \o ".0"

\* self.models.get(name, [])
ModelsGet(name) == IF name \in DOMAIN models THEN models[name] ELSE <<>>

\* metadata.get(key, default) if metadata else default
MetaGet(metadata, key, default) ==
    IF DOMAIN metadata # {} /\ key \in DOMAIN metadata THEN metadata[key] ELSE default

\* metadata.get(key) if metadata else None
MetaGetOpt(metadata, key) ==
    IF DOMAIN metadata # {} /\ key \in DOMAIN metadata THEN Some(metadata[key]) ELSE None

\* hashlib.sha256(pickle.dumps(obj)).hexdigest(): a function of the bytes.
_calculate_sha256(obj) == "sha256:" \o obj

\* A mapping with one key set (a dict store, a file written at a path).
Put(f, k, v) == [x \in (DOMAIN f) \cup {k} |-> IF x = k THEN v ELSE f[x]]

EmptyMap == [x \in {} |-> x]

\* The ModelMetadata register builds.
ModelMetadata(name, version_tag, model_type, created_by, metadata, model_sha) ==
    [ name |-> name,
      version |-> version_tag,
      model_type |-> model_type,
      domain |-> MetaGet(metadata, "domain", "general"),
      created_date |-> clock,
      created_by |-> created_by,
      approval_date |-> MetaGetOpt(metadata, "approval_date"),
      approved_by |-> MetaGetOpt(metadata, "approved_by"),
      status |-> MetaGet(metadata, "status", "development"),
      performance_metrics |-> MetaGetOpt(metadata, "performance_metrics"),
      validation_report |-> None,
      data_sha256 |-> None,
      model_sha256 |-> Some(model_sha) ]

\* json.dump(..., default=str): a value json cannot encode is written as str(v).
JsonValue(v) == IF v.type \in {"float", "str"} THEN v ELSE [type |-> "str", repr |-> v.repr]

\* json.dump(asdict(metadata), f, default=str): the JSON object written.
JsonDump(meta) ==
    [meta EXCEPT !.performance_metrics =
        IF @ = None THEN None
        ELSE Some([k \in DOMAIN @[1] |-> JsonValue(@[1][k])])]

\* The last call: its name, its outcome ("ok", "none", "true", "false",
\* "raise"), the records it returned and the artifact returned with them.
Result(op, outcome, value, model) ==
    [op |-> op, outcome |-> outcome, value |-> value, model |-> model]

\* AuditTrail.get_logs / log_action: the last call, what it returned ("true",
\* "false", "list", "raise") and the list get_logs returned.
LogResult(op, outcome, value) == [op |-> op, outcome |-> outcome, value |-> value]

\* ------------------------------------------------------------------- init
\* AuditTrail.__init__(storage): an empty in-memory log.  In filesystem mode
\* the directory is created if missing; no log file is opened or read.
AuditTrail_init(s) ==
    /\ storage = s
    /\ logs = <<>>
    /\ log_file = EmptyMap
    /\ passed = <<>>
    /\ log_ret = LogResult("init", "ok", <<>>)

Init ==
    /\ backend \in Backends
    /\ alive = TRUE
    /\ models = EmptyMap
    /\ model_pkl = EmptyMap
    /\ meta_json = EmptyMap
    /\ clock = 0
    /\ issued = [n \in Names |-> <<>>]
    /\ calls = 0
    /\ pc = [t \in Threads |-> "idle"]
    /\ frame = [t \in Threads |-> NoFrame]
    /\ ret = Result("init", "ok", {}, None)
    /\ AuditTrail_init("filesystem")

\* ---------------------------------------------------------------- actions
\* The wall clock advances between calls.
Tick ==
    /\ clock' \in {t \in Instants : t > clock}
    /\ UNCHANGED <<backend, alive, models, model_pkl, meta_json, issued, calls, pc, frame, ret>>
    /\ UNCHANGED audit

\* _save_model_filesystem: model.pkl is written first, metadata.json second.
\* A failure while writing a file leaves it truncated (None) and raises.
_save_model_filesystem(name, version, model, metadata, fault) ==
    LET model_dir == PathParts(name) \o <<version>> IN
    /\ model_pkl' = Put(model_pkl, model_dir, IF fault = "pkl" THEN None ELSE Some(model))
    /\ meta_json' =
          IF fault = "pkl" THEN meta_json
          ELSE Put(meta_json, model_dir,
                   IF fault = "meta" THEN None ELSE Some(JsonDump(metadata)))

\* A version counter that is not incremented.
current_version_NoIncrement(name) == Len(ModelsGet(name))

\* register, "# Generate version tag": len(self.models.get(name, [])) + 1
current_version(name) == Len(ModelsGet(name)) + 1

\* A save whose exception is swallowed.
SaveRaises_Swallowed(fault) == FALSE

\* register, "# Store model": the save raises when a storage write fails; the
\* except clause logs and re-raises.
SaveRaises(fault) == backend = "filesystem" /\ fault # "none"

\* register
register(name, model, model_type, created_by, metadata, fault) ==
    /\ alive
    /\ calls < MaxRegisterCalls
    /\ calls' = calls + 1
    /\ LET version_tag == VersionTag(current_version(name))
           model_meta == ModelMetadata(name, version_tag, model_type, created_by,
                                     metadata, _calculate_sha256(model))
       IN
       IF ~Picklable(model)
       THEN \* _calculate_sha256 raises; the except clause logs and re-raises
            /\ fault = "none"
            /\ ret' = Result("register", "raise", {}, None)
            /\ UNCHANGED <<models, model_pkl, meta_json, issued>>
       ELSE /\ IF backend = "filesystem"
               THEN _save_model_filesystem(name, version_tag, model, model_meta, fault)
               ELSE \* _save_model_mlflow is `pass`
                    /\ fault = "none"
                    /\ UNCHANGED <<model_pkl, meta_json>>
            /\ IF SaveRaises(fault)
               THEN \* raised before "# Update registry"
                    /\ ret' = Result("register", "raise", {}, None)
                    /\ UNCHANGED <<models, issued>>
               ELSE /\ models' = Put(models, name, Append(ModelsGet(name), model_meta))
                    /\ issued' = [issued EXCEPT ![name] = Append(@, model_meta)]
                    /\ ret' = Result("register", "ok", {model_meta}, None)
    /\ UNCHANGED <<backend, alive, clock, pc, frame>>
    /\ UNCHANGED audit

\* _load_model: open(storage_path / name / version / 'model.pkl') and unpickle.
\* storage_path is set by the constructor in filesystem mode only, so in any
\* other mode the attribute read raises.  <<"raise">> stands for an exception.
_load_model(name, version) ==
    LET model_path == PathParts(name) \o <<version>> IN
    IF backend # "filesystem" THEN <<"raise">>
    ELSE IF model_path \notin DOMAIN model_pkl THEN <<"raise">>
    ELSE IF model_pkl[model_path] = None THEN <<"raise">>
    ELSE <<"ok", model_pkl[model_path][1]>>

\* max(prod_versions, key=lambda x: x.created_date): Python's max returns the
\* first of the maximal elements.
latest(versions) ==
    LET i == CHOOSE i \in 1..Len(versions) :
                /\ \A j \in 1..Len(versions) : versions[j].created_date <= versions[i].created_date
                /\ \A j \in 1..(i - 1) : versions[j].created_date < versions[i].created_date
    IN versions[i]

IsProduction(v) == v.status = "production"

\* What a lookup returns once it has found `found`: the record and its artifact.
Found(op, name, found) ==
    LET loaded == _load_model(name, found.version) IN
    IF loaded[1] = "raise"
    THEN Result(op, "raise", {}, None)
    ELSE Result(op, "ok", {found}, Some(loaded[2]))

\* get_production_model: the value returned (or the raise) in the current state.
get_production_model_result(name) ==
    IF name \notin DOMAIN models
    THEN Result("get_production_model", "none", {}, None)
    ELSE LET prod_versions == SelectSeq(models[name], IsProduction) IN
         IF prod_versions = <<>>
         THEN Result("get_production_model", "none", {}, None)
         ELSE Found("get_production_model", name, latest(prod_versions))

get_production_model(name) ==
    /\ alive
    /\ ret' = get_production_model_result(name)
    /\ UNCHANGED <<backend, alive, models, model_pkl, meta_json, clock, issued, calls, pc, frame>>
    /\ UNCHANGED audit

\* get_model_version
get_model_version_result(name, version) ==
    IF name \notin DOMAIN models
    THEN Result("get_model_version", "none", {}, None)
    ELSE LET HasVersion(v) == v.version = version
             metadata_list == SelectSeq(models[name], HasVersion) IN
         IF metadata_list = <<>>
         THEN Result("get_model_version", "none", {}, None)
         ELSE Found("get_model_version", name, metadata_list[1])

get_model_version(name, version) ==
    /\ alive
    /\ ret' = get_model_version_result(name, version)
    /\ UNCHANGED <<backend, alive, models, model_pkl, meta_json, clock, issued, calls, pc, frame>>
    /\ UNCHANGED audit

\* A search that falls back to the first record.
FindVersion_FirstWhenMissing(versions, version) ==
    IF \E i \in 1..Len(versions) : versions[i].version = version
    THEN CHOOSE i \in 1..Len(versions) :
            /\ versions[i].version = version
            /\ \A j \in 1..(i - 1) : versions[j].version # version
    ELSE 1

\* promote_to_production, "# Find version": the position of the first record
\* with that version, 0 when there is none.
FindVersion(versions, version) ==
    IF \E i \in 1..Len(versions) : versions[i].version = version
    THEN CHOOSE i \in 1..Len(versions) :
            /\ versions[i].version = version
            /\ \A j \in 1..(i - 1) : versions[j].version # version
    ELSE 0

\* promote_to_production, one pass of the demote loop:
\* if vm.status == 'production': vm.status = 'staging'
DemoteOne(vm) == IF vm.status = "production" THEN [vm EXCEPT !.status = "staging"] ELSE vm

\* A demotion to the initial status.
Demote_ToDevelopment(versions) ==
    [j \in 1..Len(versions) |->
        IF versions[j].status = "production"
        THEN [versions[j] EXCEPT !.status = "development"]
        ELSE versions[j]]

\* promote_to_production, "# Demote current production": the whole loop
Demote(versions) == [j \in 1..Len(versions) |-> DemoteOne(versions[j])]

\* A promotion that stamps the record anew.
Promote_Recreated(versions, i, approved_by) ==
    [versions EXCEPT ![i] = [@ EXCEPT !.status = "production",
                                      !.approved_by = Some(approved_by),
                                      !.approval_date = Some(clock),
                                      !.created_by = approved_by]]

\* promote_to_production, "# Promote new version"
Promote(versions, i, approved_by) ==
    [versions EXCEPT ![i] = [@ EXCEPT !.status = "production",
                                      !.approved_by = Some(approved_by),
                                      !.approval_date = Some(clock)]]

\* A promotion that rewrites the metadata.json of the records of the name.
PromoteStorage_Persisted(name, versions) ==
    [p \in DOMAIN meta_json |->
        IF \E i \in 1..Len(versions) : p = PathParts(name) \o <<versions[i].version>>
        THEN LET i == CHOOSE i \in 1..Len(versions) :
                         p = PathParts(name) \o <<versions[i].version>>
             IN Some(JsonDump(versions[i]))
        ELSE meta_json[p]]

\* promote_to_production, lines 194-205: the records are changed in memory and
\* no _save_model_* is called, so storage is what it was.
PromoteStorage(name, versions) == meta_json

promote_to_production(name, version, approved_by, approval_notes) ==
    /\ alive
    /\ IF name \notin DOMAIN models
       THEN /\ ret' = Result("promote_to_production", "false", {}, None)
            /\ UNCHANGED models
       ELSE LET i == FindVersion(models[name], version) IN
            IF i = 0
            THEN /\ ret' = Result("promote_to_production", "false", {}, None)
                 /\ UNCHANGED models
            ELSE /\ models' = [models EXCEPT ![name] = Promote(Demote(@), i, approved_by)]
                 /\ ret' = Result("promote_to_production", "true", {}, None)
    /\ meta_json' = PromoteStorage(name, ModelsGet(name)')
    /\ UNCHANGED <<backend, alive, model_pkl, clock, issued, calls, pc, frame>>
    /\ UNCHANGED audit

\* The filters argument of list_models: None (the empty mapping here, both are
\* falsy in `if not filters`) or a dict.
NoFilters == <<>>
FiltersArgs ==
    { NoFilters,
      [domain |-> "credit"],
      [status |-> "production"],
      [domain |-> "general", status |-> "development"],
      [created_by |-> "zed"],
      [domain |-> "credit", created_by |-> "zed"] }

\* list_models, lines 154-156: the records of every name.  The list is held as
\* the set of its elements (the records of an index differ in name or version).
AllModels == UNION {{models[n][i] : i \in 1..Len(models[n])} : n \in DOMAIN models}

\* list_models, lines 163-164
ByDomain(filtered, filters) ==
    IF "domain" \in DOMAIN filters
    THEN {m \in filtered : m.domain = filters.domain}
    ELSE filtered

\* A status filter that is not applied.
ByStatus_Ignored(filtered, filters) == filtered

\* list_models, lines 165-166
ByStatus(filtered, filters) ==
    IF "status" \in DOMAIN filters
    THEN {m \in filtered : m.status = filters.status}
    ELSE filtered

\* list_models: the records returned in the current state.
list_models_result(filters) ==
    IF DOMAIN filters = {} THEN AllModels
    ELSE ByStatus(ByDomain(AllModels, filters), filters)

list_models(filters) ==
    /\ alive
    /\ ret' = Result("list_models", "ok", list_models_result(filters), None)
    /\ UNCHANGED <<backend, alive, models, model_pkl, meta_json, clock, issued, calls, pc, frame>>
    /\ UNCHANGED audit

\* _load_registry: the directories <model_dir>/<version_dir> directly under the
\* storage root that hold a metadata.json.
LoadableDirs == {p \in DOMAIN meta_json : Len(p) = 2}
ModelDirs == {p[1] : p \in LoadableDirs}
VersionDirs(d) == {p[2] : p \in {q \in LoadableDirs : q[1] = d}}

\* The orders iterdir() may list a set of entries in.
Orderings(S) ==
    {s \in [1..Cardinality(S) -> S] : \A i, j \in 1..Cardinality(S) : s[i] = s[j] => i = j}

\* ModelMetadata(**json.load(f)) of a complete metadata.json
JsonLoad(doc) == doc

\* _load_registry: the index built when iterdir() lists the version
\* directories of each model directory d in the order order[d].
_load_registry(order) ==
    [d \in ModelDirs |->
        [i \in 1..Len(order[d]) |-> JsonLoad(meta_json[<<d, order[d][i]>>][1])]]

\* __init__ in a new process over the same backend and uri.
Restart ==
    /\ IF backend = "filesystem"
       THEN IF \E p \in LoadableDirs : meta_json[p] = None
            THEN \* json.load raises on a truncated file: no registry is built
                 /\ alive' = FALSE
                 /\ models' = EmptyMap
                 /\ ret' = Result("init", "raise", {}, None)
            ELSE /\ alive' = TRUE
                 /\ \E order \in [ModelDirs -> UNION {Orderings(VersionDirs(d)) : d \in ModelDirs}] :
                       /\ \A d \in ModelDirs : order[d] \in Orderings(VersionDirs(d))
                       /\ models' = _load_registry(order)
                 /\ ret' = Result("init", "ok", {}, None)
       ELSE /\ alive' = TRUE
            /\ models' = EmptyMap
            /\ ret' = Result("init", "ok", {}, None)
    /\ UNCHANGED <<backend, model_pkl, meta_json, clock, issued, calls, pc, frame>>
    /\ UNCHANGED audit

\* ------------------------------------------------------------------- next
\* The version strings callers ask for.
VersionArgs == {VersionTag(k) : k \in 1..MaxRegisterCalls}

Next ==
    \/ Tick
    \/ \E name \in Names, c \in RegisterCalls :
          register(name, c[1], "classifier", "alice", c[2], c[3])
    \/ \E name \in Names : get_production_model(name)
    \/ \E name \in Names, version \in VersionArgs : get_model_version(name, version)
    \/ \E name \in Names, version \in VersionArgs :
          promote_to_production(name, version, "bob", "notes")
    \/ Restart

Spec == Init /\ [][Next]_vars

\* list_models reads the index and changes nothing, so it is run next to the
\* calls that change the index of one registry object: register and
\* promote_to_production.
NextList ==
    \/ Tick
    \/ \E name \in Names, c \in RegisterCalls :
          register(name, c[1], "classifier", "alice", c[2], c[3])
    \/ \E name \in Names, version \in VersionArgs :
          promote_to_production(name, version, "bob", "notes")
    \/ \E filters \in FiltersArgs : list_models(filters)

SpecList == Init /\ [][NextList]_vars

\* The calls on one registry object within one process: every public method,
\* no construction of a new registry.
NextProcess ==
    \/ Tick
    \/ \E name \in Names, c \in RegisterCalls :
          register(name, c[1], "classifier", "alice", c[2], c[3])
    \/ \E name \in Names : get_production_model(name)
    \/ \E name \in Names, version \in VersionArgs : get_model_version(name, version)
    \/ \E filters \in FiltersArgs : list_models(filters)
    \/ \E name \in Names, version \in VersionArgs :
          promote_to_production(name, version, "bob", "notes")

SpecProcess == Init /\ [][NextProcess]_vars

\* ---------------------------------------------------------------- threads
\* promote_to_production run by several threads of one process.  The class
\* holds no lock, so a thread switch may fall between any two statements; the
\* steps below are the lookup (lines 179-192), one pass of the demote loop
\* (195-197), the status store (200) and the approval stores with the return
\* (201-205).
PromoteBegin(t, name, version, approved_by) ==
    /\ alive
    /\ pc[t] = "idle"
    /\ IF name \notin DOMAIN models \/ FindVersion(ModelsGet(name), version) = 0
       THEN /\ ret' = Result("promote_to_production", "false", {}, None)
            /\ UNCHANGED <<pc, frame>>
       ELSE /\ pc' = [pc EXCEPT ![t] = "demote"]
            /\ frame' = [frame EXCEPT ![t] =
                            [name |-> name, version |-> version,
                             version_meta |-> FindVersion(models[name], version),
                             vm |-> 1, approved_by |-> approved_by]]
            /\ UNCHANGED ret
    /\ UNCHANGED <<backend, alive, models, model_pkl, meta_json, clock, issued, calls>>
    /\ UNCHANGED audit

PromoteDemoteStep(t) ==
    /\ pc[t] = "demote"
    /\ LET f == frame[t] IN
       IF f.vm > Len(models[f.name])
       THEN /\ pc' = [pc EXCEPT ![t] = "promote"]
            /\ UNCHANGED <<models, frame>>
       ELSE /\ models' = [models EXCEPT ![f.name][f.vm] = DemoteOne(@)]
            /\ frame' = [frame EXCEPT ![t].vm = @ + 1]
            /\ UNCHANGED pc
    /\ UNCHANGED <<backend, alive, model_pkl, meta_json, clock, issued, calls, ret>>
    /\ UNCHANGED audit

PromoteSetStatus(t) ==
    /\ pc[t] = "promote"
    /\ LET f == frame[t] IN
       models' = [models EXCEPT ![f.name][f.version_meta].status = "production"]
    /\ pc' = [pc EXCEPT ![t] = "approve"]
    /\ UNCHANGED <<backend, alive, model_pkl, meta_json, clock, issued, calls, frame, ret>>
    /\ UNCHANGED audit

PromoteApprove(t) ==
    /\ pc[t] = "approve"
    /\ LET f == frame[t] IN
       models' = [models EXCEPT ![f.name][f.version_meta] =
                     [@ EXCEPT !.approved_by = Some(f.approved_by),
                               !.approval_date = Some(clock)]]
    /\ pc' = [pc EXCEPT ![t] = "idle"]
    /\ frame' = [frame EXCEPT ![t] = NoFrame]
    /\ ret' = Result("promote_to_production", "true", {}, None)
    /\ UNCHANGED <<backend, alive, model_pkl, meta_json, clock, issued, calls>>
    /\ UNCHANGED audit

\* The registry the threads share: a filesystem registry on which two versions
\* of "credit" were registered and v1.0 was promoted.
SharedV1 == [name |-> "credit", version |-> VersionTag(1), model_type |-> "classifier",
             domain |-> "general", created_date |-> 0, created_by |-> "alice",
             approval_date |-> None, approved_by |-> None, status |-> "development",
             performance_metrics |-> None, validation_report |-> None,
             data_sha256 |-> None, model_sha256 |-> Some(_calculate_sha256("artA"))]
SharedV2 == [SharedV1 EXCEPT !.version = VersionTag(2)]

InitThreads ==
    /\ backend = "filesystem"
    /\ alive = TRUE
    /\ clock = 0
    /\ models = [n \in {"credit"} |-> Promote(Demote(<<SharedV1, SharedV2>>), 1, "bob")]
    /\ model_pkl = [p \in {<<"credit", VersionTag(1)>>, <<"credit", VersionTag(2)>>} |-> Some("artA")]
    /\ meta_json = [p \in {<<"credit", VersionTag(1)>>, <<"credit", VersionTag(2)>>} |->
                      Some(JsonDump(IF p[2] = VersionTag(1) THEN SharedV1 ELSE SharedV2))]
    /\ issued = [n \in Names |-> IF n = "credit" THEN <<SharedV1, SharedV2>> ELSE <<>>]
    /\ calls = 2
    /\ pc = [t \in Threads |-> "idle"]
    /\ frame = [t \in Threads |-> NoFrame]
    /\ ret = Result("promote_to_production", "true", {}, None)
    /\ AuditTrail_init("filesystem")

NextThreads ==
    \/ \E t \in Threads, version \in VersionArgs : PromoteBegin(t, "credit", version, "bob")
    \/ \E t \in Threads : PromoteDemoteStep(t)
    \/ \E t \in Threads : PromoteSetStatus(t)
    \/ \E t \in Threads : PromoteApprove(t)
    \/ \E name \in DOMAIN models : get_production_model(name)

SpecThreads == InitThreads /\ [][NextThreads]_vars

\* ------------------------------------------------------- register threads
\* register run by several threads of one process.  The class holds no lock,
\* so a thread switch may fall between any two statements; the steps below
\* are the version counter read with the hash and the record (lines 79-98),
\* the storage write (101-102), the test `name not in self.models` (107), the
\* store of the empty list (108) and the append with the return (109-112).
RegisterBegin(t, name, model, created_by) ==
    /\ alive
    /\ pc[t] = "idle"
    /\ calls < MaxRegisterCalls
    /\ calls' = calls + 1
    /\ pc' = [pc EXCEPT ![t] = "store"]
    /\ frame' = [frame EXCEPT ![t] =
                    [name |-> name, model |-> model,
                     model_meta |-> ModelMetadata(name, VersionTag(current_version(name)),
                                                  "classifier", created_by, NoOverrides,
                                                  _calculate_sha256(model))]]
    /\ UNCHANGED <<backend, alive, models, model_pkl, meta_json, clock, issued, ret>>
    /\ UNCHANGED audit

RegisterStore(t) ==
    /\ pc[t] = "store"
    /\ LET f == frame[t] IN
       _save_model_filesystem(f.name, f.model_meta.version, f.model, f.model_meta, "none")
    /\ pc' = [pc EXCEPT ![t] = "check"]
    /\ UNCHANGED <<backend, alive, models, clock, issued, calls, frame, ret>>
    /\ UNCHANGED audit

RegisterCheck(t) ==
    /\ pc[t] = "check"
    /\ pc' = [pc EXCEPT ![t] = IF frame[t].name \notin DOMAIN models THEN "create" ELSE "append"]
    /\ UNCHANGED <<backend, alive, models, model_pkl, meta_json, clock, issued, calls, frame, ret>>
    /\ UNCHANGED audit

RegisterCreate(t) ==
    /\ pc[t] = "create"
    /\ models' = Put(models, frame[t].name, <<>>)
    /\ pc' = [pc EXCEPT ![t] = "append"]
    /\ UNCHANGED <<backend, alive, model_pkl, meta_json, clock, issued, calls, frame, ret>>
    /\ UNCHANGED audit

RegisterAppend(t) ==
    /\ pc[t] = "append"
    /\ LET f == frame[t] IN
       /\ models' = [models EXCEPT ![f.name] = Append(@, f.model_meta)]
       /\ issued' = [issued EXCEPT ![f.name] = Append(@, f.model_meta)]
       /\ ret' = Result("register", "ok", {f.model_meta}, None)
    /\ pc' = [pc EXCEPT ![t] = "idle"]
    /\ frame' = [frame EXCEPT ![t] = NoFrame]
    /\ UNCHANGED <<backend, alive, model_pkl, meta_json, clock, calls>>
    /\ UNCHANGED audit

\* The registry the threads share: a new filesystem registry.
InitRegisterThreads ==
    /\ backend = "filesystem"
    /\ alive = TRUE
    /\ models = EmptyMap
    /\ model_pkl = EmptyMap
    /\ meta_json = EmptyMap
    /\ clock = 0
    /\ issued = [n \in Names |-> <<>>]
    /\ calls = 0
    /\ pc = [t \in Threads |-> "idle"]
    /\ frame = [t \in Threads |-> NoFrame]
    /\ ret = Result("init", "ok", {}, None)
    /\ AuditTrail_init("filesystem")

NextRegisterThreads ==
    \/ Tick
    \/ \E t \in Threads, name \in Names, model \in {"artA", "artB"} :
          RegisterBegin(t, name, model, t)
    \/ \E t \in Threads : RegisterStore(t)
    \/ \E t \in Threads : RegisterCheck(t)
    \/ \E t \in Threads : RegisterCreate(t)
    \/ \E t \in Threads : RegisterAppend(t)

SpecRegisterThreads == InitRegisterThreads /\ [][NextRegisterThreads]_vars

\* ------------------------------------------------------------- AuditTrail
\* Calls of log_action over the whole run.
MaxLogCalls == 3

\* The storage argument of the constructor: 'filesystem' or anything else.
Storages == {"filesystem", "memory"}

\* The details argument of log_action: a dict whose value is a str, a tuple
\* or a set.
DetailsStr == [reason |-> [type |-> "str", repr |-> "ok"]]
DetailsTuple == [ids |-> [type |-> "tuple", repr |-> "1, 2"]]
DetailsSet == [ids |-> [type |-> "set", repr |-> "1, 2"]]

\* Where the append to the log file fails: nowhere, or in open() (an I/O error).
LogFaults == {"none", "io"}

\* The (action, model_id, details, status, fault) combinations log_action is
\* called with.
LogCalls ==
    { <<"register", "credit", DetailsStr, "SUCCESS", "none">>,
      <<"promote", "credit", DetailsTuple, "SUCCESS", "none">>,
      <<"register", "fraud", DetailsSet, "FAILED", "none">>,
      <<"promote", "fraud", DetailsStr, "SUCCESS", "io">> }

\* The model_id and action arguments of get_logs (Optional[str]) and days_back.
ModelIdArgs == {None, Some(""), Some("credit")}
ActionArgs == {None, Some(""), Some("register")}
DaysBackArgs == {0, 30}

\* json.dumps(log_entry), without default=: a tuple is written as a list, a set
\* raises TypeError.
JsonEncodable(details) == \A k \in DOMAIN details : details[k].type # "set"
JsonDumps(log_entry) ==
    [log_entry EXCEPT !.details =
        [k \in DOMAIN @ |-> IF @[k].type = "tuple" THEN [@[k] EXCEPT !.type = "list"] ELSE @[k]]]

\* The lines of audit_<date>.jsonl, none when the file does not exist.
LogLines(date) == IF date \in DOMAIN log_file THEN log_file[date] ELSE <<>>

\* _save_log_filesystem with datetime.now() reading date: open(log_file, 'a')
\* creates the file, then json.dumps and the write of one line.
_save_log_filesystem(log_entry, date, fault) ==
    log_file' =
        IF fault = "io" THEN log_file
        ELSE IF ~JsonEncodable(log_entry.details) THEN Put(log_file, date, LogLines(date))
        ELSE Put(log_file, date, Append(LogLines(date), JsonDumps(log_entry)))

\* A log write whose exception goes unnoticed.
SaveLogRaises_Swallowed(details, fault) == FALSE

\* log_action, lines 294-295 and 300-302: _save_log_filesystem raises, the
\* except clause logs the error and returns False.
SaveLogRaises(details, fault) ==
    storage = "filesystem" /\ (fault = "io" \/ ~JsonEncodable(details))

\* An append that replaces the last entry.
AppendLog_Overwrite(l, log_entry) ==
    IF l = <<>> THEN <<log_entry>> ELSE [l EXCEPT ![Len(l)] = log_entry]

\* log_action, line 292: self.logs.append(log_entry)
AppendLog(l, log_entry) == Append(l, log_entry)

\* The log_entry log_action builds; timestamp is datetime.now().
LogEntry(action, model_id, actor, details, status) ==
    [timestamp |-> clock, action |-> action, model_id |-> model_id, actor |-> actor,
     details |-> details, status |-> status]

\* log_action.  datetime.now() is read for the timestamp and, in
\* _save_log_filesystem, again for the name of the day's file.
log_action(action, model_id, actor, details, status, fault) ==
    /\ Len(passed) < MaxLogCalls
    /\ LET log_entry == LogEntry(action, model_id, actor, details, status) IN
       /\ logs' = AppendLog(logs, log_entry)
       /\ passed' = Append(passed, [action |-> action, model_id |-> model_id, actor |-> actor,
                                    details |-> details, status |-> status])
       /\ IF storage = "filesystem"
          THEN \E date \in {t \in Instants : t >= clock} :
                  /\ clock' = date
                  /\ _save_log_filesystem(log_entry, date, fault)
          ELSE /\ fault = "none"
               /\ UNCHANGED <<clock, log_file>>
       /\ log_ret' = LogResult("log_action",
                               IF SaveLogRaises(details, fault) THEN "false" ELSE "true", <<>>)
    /\ UNCHANGED <<backend, alive, models, model_pkl, meta_json, issued, calls, pc, frame, ret>>
    /\ UNCHANGED storage

\* `if model_id:` / `if action:`: None and the empty string are both falsy.
Truthy(arg) == arg # None /\ arg[1] # ""

\* get_logs: the list returned in the current state.
get_logs_result(model_id, action, days_back) ==
    LET ByModel(l) == l.model_id = model_id[1]
        ByAction(l) == l.action = action[1]
        filtered == IF Truthy(model_id) THEN SelectSeq(logs, ByModel) ELSE logs
    IN IF Truthy(action) THEN SelectSeq(filtered, ByAction) ELSE filtered

get_logs(model_id, action, days_back) ==
    /\ log_ret' = LogResult("get_logs", "list", get_logs_result(model_id, action, days_back))
    /\ UNCHANGED <<backend, alive, models, model_pkl, meta_json, clock, issued, calls, pc, frame, ret>>
    /\ UNCHANGED <<storage, logs, log_file, passed>>

\* An AuditTrail next to a filesystem registry on which "credit" is registered
\* and promoted.
InitAudit ==
    /\ backend = "filesystem"
    /\ alive = TRUE
    /\ models = EmptyMap
    /\ model_pkl = EmptyMap
    /\ meta_json = EmptyMap
    /\ clock = 0
    /\ issued = [n \in Names |-> <<>>]
    /\ calls = 0
    /\ pc = [t \in Threads |-> "idle"]
    /\ frame = [t \in Threads |-> NoFrame]
    /\ ret = Result("init", "ok", {}, None)
    /\ \E s \in Storages : AuditTrail_init(s)

NextAudit ==
    \/ Tick
    \/ \E c \in LogCalls : log_action(c[1], c[2], "alice", c[3], c[4], c[5])
    \/ \E model_id \in ModelIdArgs, action \in ActionArgs, days_back \in DaysBackArgs :
          get_logs(model_id, action, days_back)
    \/ register("credit", "artA", "classifier", "alice", NoOverrides, "none")
    \/ promote_to_production("credit", VersionTag(1), "bob", "notes")

SpecAudit == InitAudit /\ [][NextAudit]_vars

\* ------------------------------------------------------------------ claims
\* Positions of the production records of a list.
ProductionAt(versions) == {i \in 1..Len(versions) : versions[i].status = "production"}

\* C1: in every reachable state, at most one record per model name has
\* status = production.
C1_AtMostOneProduction ==
    \A n \in DOMAIN models : Cardinality(ProductionAt(models[n])) <= 1

\* C2: on a fresh registry the version tags successful register calls under
\* one name returned are v1.0, v2.0, ..., vN.0 in call order.  A fresh registry
\* holds under each name exactly the records registered on it (NothingLost);
\* every call other than the construction of a new registry (the only step
\* that returns from __init__) keeps it so; and
\* wherever it is so, the tags returned are v1.0 .. vN.0.
NothingLost(n) == Len(ModelsGet(n)) = Len(issued[n])

C2_VersionTagsInCallOrder ==
    /\ \A n \in Names : NothingLost(n)
    /\ [][ret'.op # "init" => \A n \in Names : NothingLost(n) => NothingLost(n)']_vars
    /\ [](\A n \in Names :
            NothingLost(n) =>
                \A i \in 1..Len(issued[n]) : issued[n][i].version = VersionTag(i))

\* Two successful registers under one name on the same registry, the first
\* record promoted in between.
C2_Witness ==
    /\ Len(issued["credit"]) = 2
    /\ Len(ModelsGet("credit")) = 2
    /\ models["credit"][1].status = "production"
    /\ issued["credit"][1].status = "development"

\* C3: a successful promote_to_production(name, B) leaves B the only
\* production record under name; every other record under name that was
\* production becomes staging, every other record keeps its status, and the
\* records of other names are unchanged.
C3_PromotionEffect ==
    [][\A name \in Names, version \in VersionArgs :
          (ret'.outcome = "true" /\ promote_to_production(name, version, "bob", "notes")) =>
              /\ DOMAIN models' = DOMAIN models
              /\ \A n \in DOMAIN models \ {name} : models'[n] = models[n]
              /\ Len(models'[name]) = Len(models[name])
              /\ \A i \in 1..Len(models[name]) :
                    LET old == models[name][i]
                        new == models'[name][i]
                    IN  /\ old.version = version => new.status = "production"
                        /\ (old.version # version /\ old.status = "production")
                              => new.status = "staging"
                        /\ (old.version # version /\ old.status # "production")
                              => new.status = old.status
              /\ \E i \in 1..Len(models'[name]) :
                    /\ models'[name][i].version = version
                    /\ ProductionAt(models'[name]) = {i}
    ]_vars

\* A promotion has just succeeded under "credit" and the record it demoted is
\* in staging.
C3_Witness ==
    /\ ret.op = "promote_to_production"
    /\ ret.outcome = "true"
    /\ "credit" \in DOMAIN models
    /\ \E i, j \in 1..Len(models["credit"]) :
          /\ models["credit"][i].status = "staging"
          /\ models["credit"][j].status = "production"

\* C4: promote_to_production on an unknown name, or on a known name with an
\* unknown version, returns false (it does not raise) and changes neither the
\* index nor the storage.
C4_UnknownTargetUnchanged ==
    [][\A name \in Names, version \in VersionArgs :
          ( /\ \/ name \notin DOMAIN models
               \/ \A i \in 1..Len(models[name]) : models[name][i].version # version
            /\ promote_to_production(name, version, "bob", "notes") )
          => /\ ret'.op = "promote_to_production"
             /\ ret'.outcome = "false"
             /\ models' = models
             /\ model_pkl' = model_pkl
             /\ meta_json' = meta_json
    ]_vars

\* A promotion has just returned false on a registry that holds a production
\* record.
C4_Witness ==
    /\ ret.op = "promote_to_production"
    /\ ret.outcome = "false"
    /\ \E n \in DOMAIN models : ProductionAt(models[n]) # {}

\* C5: with the filesystem backend, no version tag is returned twice by
\* successful registers under one name, restarts included.
C5_TagNeverReissued ==
    backend = "filesystem" =>
        \A n \in Names : \A i, j \in 1..Len(issued[n]) :
            issued[n][i].version = issued[n][j].version => i = j

\* C6: promote_to_production is one atomic transition of the index for every
\* other caller: with a production record in place before the promotions, a
\* concurrent get_production_model always finds a production record, and no
\* interleaving of promotions leaves two production records under a name.
C6_PromotionAtomic ==
    /\ \A n \in DOMAIN models : Cardinality(ProductionAt(models[n])) <= 1
    /\ ret.op = "get_production_model" => ret.outcome = "ok"

\* C7: a register call that fails (hash, serialization or storage write)
\* raises and leaves the index of every name unchanged, so the next register
\* under the name computes the same version tag.
C7_FailedRegisterLeavesIndex ==
    [][\A name \in Names, c \in RegisterCalls :
          ( /\ \/ ~Picklable(c[1])
               \/ (backend = "filesystem" /\ c[3] # "none")
            /\ register(name, c[1], "classifier", "alice", c[2], c[3]) )
          => /\ ret'.op = "register"
             /\ ret'.outcome = "raise"
             /\ models' = models
             /\ issued' = issued
             /\ \A n \in Names : current_version(n)' = current_version(n)
    ]_vars

\* A register has just failed in a storage write, on a registry that holds a
\* record, and left a truncated metadata.json behind.
C7_Witness ==
    /\ ret.op = "register"
    /\ ret.outcome = "raise"
    /\ DOMAIN models # {}
    /\ \E p \in DOMAIN meta_json : meta_json[p] = None

\* C8: get_production_model(name) returns the production record under name
\* with the latest created_date, the one registered last among those that
\* share it, and the absent result when name is unknown or has no production
\* record.
C8_LatestProductionLastWins ==
    \A n \in Names :
        LET r == get_production_model_result(n) IN
        IF n \notin DOMAIN models \/ ProductionAt(ModelsGet(n)) = {}
        THEN r.outcome = "none"
        ELSE r.outcome = "ok" =>
                \E i \in ProductionAt(models[n]) :
                    /\ r.value = {models[n][i]}
                    /\ \A j \in ProductionAt(models[n]) :
                          \/ models[n][j].created_date < models[n][i].created_date
                          \/ (models[n][j].created_date = models[n][i].created_date /\ j <= i)

\* C9: get_production_model and get_model_version never raise, whatever the
\* backend, and get_model_version returns a record exactly when a record with
\* that (name, version) is in the index.
C9_LookupsNeverRaise ==
    /\ ret.op \in {"get_production_model", "get_model_version"} => ret.outcome # "raise"
    /\ \A n \in Names, v \in VersionArgs :
          LET r == get_model_version_result(n, v)
              present == \E i \in 1..Len(ModelsGet(n)) : models[n][i].version = v
          IN  /\ r.outcome # "raise"
              /\ r.outcome = "ok" <=> present
              /\ r.outcome = "ok" =>
                    \E i \in 1..Len(models[n]) :
                        models[n][i].version = v /\ r.value = {models[n][i]}

\* The registry the threads start from is a state of the sequential program.
SharedRegistryReached ==
    /\ backend = "filesystem"
    /\ clock = 0
    /\ "credit" \in DOMAIN models
    /\ models["credit"] = Promote(Demote(<<SharedV1, SharedV2>>), 1, "bob")
    /\ issued["credit"] = <<SharedV1, SharedV2>>
    /\ DOMAIN meta_json = {<<"credit", VersionTag(1)>>, <<"credit", VersionTag(2)>>}
    /\ meta_json[<<"credit", VersionTag(2)>>] = Some(JsonDump(SharedV2))
    /\ model_pkl[<<"credit", VersionTag(2)>>] = Some("artA")
    /\ ret = Result("promote_to_production", "true", {}, None)

\* C10: a new filesystem-backed registry over the same storage root holds,
\* under its name, every record register returned, equal in every field.
C10_RoundTrip ==
    (backend = "filesystem" /\ ret.op = "init") =>
        \A n \in Names : \A i \in 1..Len(issued[n]) :
            /\ ret.outcome = "ok"
            /\ n \in DOMAIN models
            /\ \E j \in 1..Len(models[n]) : models[n][j] = issued[n][i]

\* The action, model_id, actor, details and status an entry carries.
EntryFields(l) ==
    [action |-> l.action, model_id |-> l.model_id, actor |-> l.actor,
     details |-> l.details, status |-> l.status]

\* C11: the audit log is append-only.  Across log_action, get_logs and
\* registry calls the in-memory log before a step is a prefix of the log after
\* it, the entry at each position carries exactly the action, model_id, actor,
\* details and status passed to the log_action call that appended it, and
\* get_logs returns only entries of the log.
C11_AppendOnly ==
    /\ [](/\ Len(logs) = Len(passed)
          /\ \A i \in 1..Len(logs) : EntryFields(logs[i]) = passed[i])
    /\ [][Len(logs) <= Len(logs') /\ SubSeq(logs', 1, Len(logs)) = logs]_vars
    /\ [](log_ret.op = "get_logs" =>
            \A i \in 1..Len(log_ret.value) :
                \E j \in 1..Len(logs) : logs[j] = log_ret.value[i])

\* Three entries were appended, a record was registered and promoted, and
\* get_logs returned some of the entries.
C11_Witness ==
    /\ Len(logs) = 3
    /\ logs[1].model_id # logs[2].model_id
    /\ ret.op = "promote_to_production" /\ ret.outcome = "true"
    /\ log_ret.op = "get_logs" /\ Len(log_ret.value) = 2

\* C12: log_action never raises; it returns false when the durable write
\* fails (an I/O error, or details json.dumps cannot encode), and it returns
\* true only when the entry was appended to the in-memory log and, in
\* filesystem mode, written as the last line of the day's log file.
C12_LogActionNeverRaises ==
    [][\A c \in LogCalls :
          log_action(c[1], c[2], "alice", c[3], c[4], c[5]) =>
             /\ log_ret'.outcome \in {"true", "false"}
             /\ (storage = "filesystem" /\ (c[5] = "io" \/ ~JsonEncodable(c[3])))
                   => log_ret'.outcome = "false"
             /\ log_ret'.outcome = "true" =>
                   /\ logs' = Append(logs, LogEntry(c[1], c[2], "alice", c[3], c[4]))
                   /\ storage = "filesystem" =>
                         \E date \in Instants :
                            /\ date \in DOMAIN log_file'
                            /\ log_file'[date] =
                                  Append(LogLines(date),
                                         JsonDumps(LogEntry(c[1], c[2], "alice", c[3], c[4])))]_vars

\* In filesystem mode one log_action returned true with its line in the file
\* and a later one, whose write failed, returned false.
C12_Witness ==
    /\ storage = "filesystem"
    /\ log_ret.op = "log_action" /\ log_ret.outcome = "false"
    /\ Len(logs) = 2
    /\ \E date \in DOMAIN log_file : Len(log_file[date]) = 1

\* C16: get_logs returns, in append order, exactly the in-memory entries
\* whose model_id equals the given model_id (when given) and whose action
\* equals the given action (when given), whatever days_back is.
C16_GetLogsExactMatch ==
    [][\A model_id \in ModelIdArgs, action \in ActionArgs, days_back \in DaysBackArgs :
          get_logs(model_id, action, days_back) =>
             LET Matches(l) == /\ (model_id # None => l.model_id = model_id[1])
                               /\ (action # None => l.action = action[1])
             IN log_ret'.value = SelectSeq(logs, Matches)]_vars

\* The durable log: the lines of the log files, in the order of their dates.
RECURSIVE DurableFrom(_)
DurableFrom(date) ==
    IF date \notin Instants THEN <<>> ELSE LogLines(date) \o DurableFrom(date + 1)

DurableLog == DurableFrom(0)

\* C20: in filesystem mode the in-memory log and the durable log hold the
\* same entries in the same order after any sequence of log_action calls, so
\* a log_action call that returned false has appended to neither.
C20_MemoryMatchesDurable ==
    storage = "filesystem" =>
        DurableLog = [i \in 1..Len(logs) |-> JsonDumps(logs[i])]

\* C13: list_models with no filter returns every record of every name; with
\* filters it returns exactly the records whose domain equals
\* filters['domain'] (when given) and whose status equals filters['status']
\* (when given); other filter keys do not change the result, and the index is
\* left as it was.
C13_ListModelsFilters ==
    [][\A filters \in FiltersArgs :
          list_models(filters) =>
             /\ ret'.outcome = "ok"
             /\ ret'.value =
                   {m \in AllModels :
                       /\ ("domain" \in DOMAIN filters => m.domain = filters.domain)
                       /\ ("status" \in DOMAIN filters => m.status = filters.status)}
             /\ models' = models]_vars

\* list_models returned one of two records: the index holds a development
\* record and a production record, and only one passed the filters.
C13_Witness ==
    /\ ret.op = "list_models"
    /\ Cardinality(AllModels) = 2
    /\ Cardinality(ret.value) = 1
    /\ \E m \in AllModels : m.status = "production"
    /\ \E m \in AllModels : m.status = "development"

\* C14: registering the same artifact twice yields the same model_sha256 on
\* both records and still creates two records with distinct version tags:
\* with persistent (filesystem) storage every successful register returns a
\* record whose hash equals that of each record registered before under the
\* name from the same artifact, and whose version tag differs from that of
\* every record registered before under the name.
C14_SameArtifactNewVersion ==
    [][\A name \in Names, c \in RegisterCalls :
          ( /\ backend = "filesystem"
            /\ register(name, c[1], "classifier", "alice", c[2], c[3])
            /\ ret'.outcome = "ok" ) =>
             /\ Len(issued'[name]) = Len(issued[name]) + 1
             /\ \A m \in ret'.value, i \in 1..Len(issued[name]) :
                   /\ issued[name][i].model_sha256 = Some(_calculate_sha256(c[1]))
                         => m.model_sha256 = issued[name][i].model_sha256
                   /\ m.version # issued[name][i].version]_vars

\* C17: in every reachable state, the state right after a registry is
\* reconstructed from storage included, the record at position i of the list
\* of each name has version v{i}.0.
C17_IndexInVersionOrder ==
    alive => \A n \in DOMAIN models :
                \A i \in 1..Len(models[n]) : models[n][i].version = VersionTag(i)

\* C18: a record returned by register has approval_date and approved_by
\* null, and a record of the index comes to hold a non-null approval_date or
\* approved_by only in a successful promote_to_production of that record.
C18_ApprovalOnlyByPromotion ==
    /\ []((ret.op = "register" /\ ret.outcome = "ok") =>
            \A m \in ret.value : m.approved_by = None /\ m.approval_date = None)
    /\ [][\A n \in DOMAIN models' : \A i \in 1..Len(models'[n]) :
            ( /\ models'[n][i].approved_by # None \/ models'[n][i].approval_date # None
              /\ \/ i > Len(ModelsGet(n))
                 \/ models[n][i].approved_by = None /\ models[n][i].approval_date = None )
            => /\ ret'.op = "promote_to_production" /\ ret'.outcome = "true"
               /\ models'[n][i].status = "production"]_vars

\* C19: promote_to_production leaves the persisted metadata and artifacts of
\* every record unchanged, so in a registry reconstructed from storage every
\* record has the status, approved_by and approval_date of a record register
\* returned under its name and version, whatever was promoted since.
C19_PromotionNotPersisted ==
    /\ [][\/ meta_json' = meta_json /\ model_pkl' = model_pkl
          \/ \A name \in Names, version \in VersionArgs :
                ~promote_to_production(name, version, "bob", "notes")]_vars
    /\ []((backend = "filesystem" /\ ret.op = "init" /\ ret.outcome = "ok") =>
            \A n \in DOMAIN models : \A i \in 1..Len(models[n]) :
               /\ n \in Names
               /\ \E j \in 1..Len(issued[n]) :
                     /\ models[n][i].version = issued[n][j].version
                     /\ models[n][i].status = issued[n][j].status
                     /\ models[n][i].approved_by = issued[n][j].approved_by
                     /\ models[n][i].approval_date = issued[n][j].approval_date)

\* A promotion returned true: the record is production and approved in the
\* index while its metadata.json still says development and unapproved.
C19_Witness ==
    /\ ret.op = "promote_to_production" /\ ret.outcome = "true"
    /\ <<"credit", VersionTag(1)>> \in DOMAIN meta_json
    /\ meta_json[<<"credit", VersionTag(1)>>] # None
    /\ meta_json[<<"credit", VersionTag(1)>>][1].status = "development"
    /\ meta_json[<<"credit", VersionTag(1)>>][1].approved_by = None
    /\ "credit" \in DOMAIN models
    /\ models["credit"][1].status = "production"
    /\ models["credit"][1].approved_by = Some("bob")

\* C15: concurrent register calls under one name behave as atomic steps:
\* once every call has returned, the index of each name holds exactly the
\* records the calls returned, their version tags are distinct, and the
\* metadata.json of each returned record is the one its own call wrote.
C15_RegisterAtomic ==
    (\A t \in Threads : pc[t] = "idle") =>
        \A n \in Names :
            /\ Len(ModelsGet(n)) = Len(issued[n])
            /\ \A i \in 1..Len(issued[n]) :
                  /\ \E j \in 1..Len(ModelsGet(n)) : models[n][j] = issued[n][i]
                  /\ \A j \in 1..Len(issued[n]) :
                        issued[n][i].version = issued[n][j].version => i = j
                  /\ PathParts(n) \o <<issued[n][i].version>> \in DOMAIN meta_json
                  /\ meta_json[PathParts(n) \o <<issued[n][i].version>>]
                        = Some(JsonDump(issued[n][i]))

\* A record with the three fields promote_to_production may change blanked.
Identity(m) == [m EXCEPT !.status = "", !.approved_by = None, !.approval_date = None]

\* C21: no registry operation removes or re-identifies a record.  Across
\* register, promote_to_production, lookup and list calls in one process the
\* number of records per name never decreases and an existing record keeps
\* its name, version, model_type, domain, created_date, created_by and
\* model_sha256; a record changes only in status, approved_by and
\* approval_date, and only in a successful promote_to_production.
C21_RecordsKept ==
    [][\A n \in DOMAIN models :
          /\ n \in DOMAIN models'
          /\ Len(models'[n]) >= Len(models[n])
          /\ \A i \in 1..Len(models[n]) :
                LET old == models[n][i]
                    new == models'[n][i]
                IN /\ new.name = old.name
                   /\ new.version = old.version
                   /\ new.model_type = old.model_type
                   /\ new.domain = old.domain
                   /\ new.created_date = old.created_date
                   /\ new.created_by = old.created_by
                   /\ new.model_sha256 = old.model_sha256
                   /\ Identity(new) = Identity(old)
                   /\ new # old =>
                         ret'.op = "promote_to_production" /\ ret'.outcome = "true"]_vars

\* Two records were registered under "credit", the first was promoted (its
\* status and approval differ from those register returned, the rest is the
\* same), and list_models ran afterwards.
C21_Witness ==
    /\ ret.op = "list_models"
    /\ Len(issued["credit"]) = 2
    /\ Len(ModelsGet("credit")) = 2
    /\ models["credit"][1] # issued["credit"][1]
    /\ models["credit"][1].approved_by = Some("bob")
    /\ Identity(models["credit"][1]) = Identity(issued["credit"][1])
    /\ models["credit"][2] = issued["credit"][2]
====
